---- MODULE Spec2Model ----
(***************************************************************************)
(* DirectedGraph of data_structures/graphs/                               *)
(* adjacency_map_directed_weighted_graph.py: the adjacency-map store, the  *)
(* four traversals, construct_path and the three shortest-path searches.   *)
(*                                                                         *)
(* outgoing_edges, the dict the searches iterate, is a sequence of [k, v]   *)
(* entries in insertion order: an update keeps the key's place, a deletion *)
(* closes the gap, a new key goes to the end, and keys() and items()       *)
(* follow the sequence.  vertex_data and the searches' own dicts           *)
(* (distances, backtracks) are only looked up by key, and are functions.   *)
(***************************************************************************)
EXTENDS Integers, Sequences, FiniteSets, TLC

VARIABLES vertex_data, outgoing_edges, frame, last

vars == <<vertex_data, outgoing_edges, frame, last>>

\* The vertex identifiers callers use: hashable, comparable values.  0 is the
\* identifier Python treats as false.
Vertices == {0, 1, 2}

\* The edge weights callers pass to add_edge before a shortest-path search.
Weights == {-1, 0, 1}

NonNegativeWeights == {w \in Weights : w >= 0}

\* The most edges a caller puts in the graph.
MaxEdges == 3

\* The same, for the caller that watches Dijkstra's queue: a vertex is popped a
\* second time while a neighbour of it is still unvisited only in a graph of
\* four vertices and four edges.
MaxDijkstraEdges == 4

DijkstraVertices == Vertices \cup {3}

\* Python's None (no vertex identifier, payload or weight equals it).
NoneVal == -1

\* float('inf'): above every sum of weights the model can form.
Inf == 1000000

\* The payloads callers pass to add_vertex.
Payloads == {NoneVal, 1}

-----------------------------------------------------------------------------
(* dict *)

DictKeys(d) == {d[i].k : i \in 1..Len(d)}

\* list(d.keys()): the keys in iteration order.
KeySeq(d) == [i \in 1..Len(d) |-> d[i].k]

DictHas(d, key) == \E i \in 1..Len(d) : d[i].k = key

DictIdx(d, key) == CHOOSE i \in 1..Len(d) : d[i].k = key

DictGet(d, key) == d[DictIdx(d, key)].v

DictSet(d, key, value) ==
    IF DictHas(d, key)
    THEN [d EXCEPT ![DictIdx(d, key)].v = value]
    ELSE Append(d, [k |-> key, v |-> value])

DictDel(d, key) == SelectSeq(d, LAMBDA e : e.k # key)

\* defaultdict(dict).__getitem__(key): a missing key is inserted with {}.
Vivify(oe, key) ==
    IF DictHas(oe, key) THEN oe ELSE Append(oe, [k |-> key, v |-> <<>>])

\* A dict that is only looked up by key: m[key] = value, m.setdefault(key), del m[key].
MapSet(m, key, value) ==
    [x \in DOMAIN m \cup {key} |-> IF x = key THEN value ELSE m[x]]

MapSetDefault(m, key) == IF key \in DOMAIN m THEN m ELSE MapSet(m, key, NoneVal)

MapDel(m, key) == [x \in DOMAIN m \ {key} |-> m[x]]

\* bool(x) of an identifier or None.
Truthy(x) == x # NoneVal /\ x # 0

-----------------------------------------------------------------------------
(* edges(), edge_count(), vertex_count() *)

RECURSIVE EdgesFrom(_, _)
EdgesFrom(oe, i) ==
    IF i > Len(oe) THEN <<>>
    ELSE [j \in 1..Len(oe[i].v) |-> <<oe[i].k, oe[i].v[j].k, oe[i].v[j].v>>]
         \o EdgesFrom(oe, i + 1)

edges(oe) == EdgesFrom(oe, 1)

edge_count(oe) == Len(edges(oe))

vertex_count(vd) == Cardinality(DOMAIN vd)

HasEdge(oe, u, v) == DictHas(oe, u) /\ DictHas(DictGet(oe, u), v)

-----------------------------------------------------------------------------
(* The record of the last call: its name, its (first and second) vertex    *)
(* arguments and its outcome.                                              *)

NoCall ==
    [op |-> "none", v |-> NoneVal, w |-> NoneVal, out |-> "ok",
     member |-> FALSE, n |-> 0, path |-> <<>>, visited |-> {},
     backtracks |-> <<>>]

Call(op, v, w, out) == [NoCall EXCEPT !.op = op, !.v = v, !.w = w, !.out = out]

Idle == frame.pc = "idle"

Init ==
    /\ vertex_data = <<>>
    /\ outgoing_edges = <<>>
    /\ frame = [pc |-> "idle"]
    /\ last = NoCall

-----------------------------------------------------------------------------
(* Graph Store *)

add_vertex(v, value) ==
    /\ Idle
    /\ vertex_data' = MapSet(vertex_data, v, value)
    /\ last' = Call("add_vertex", NoneVal, NoneVal, "ok")
    /\ UNCHANGED <<outgoing_edges, frame>>

AddEdgeData(vd, u, v) == MapSetDefault(MapSetDefault(vd, u), v)

AddEdgeAdjacency(oe, u, v, weight) ==
    LET oe1 == Vivify(oe, u)
    IN  DictSet(oe1, u, DictSet(DictGet(oe1, u), v, weight))

add_edge(u, v, weight) ==
    /\ Idle
    /\ vertex_data' = AddEdgeData(vertex_data, u, v)
    /\ outgoing_edges' = AddEdgeAdjacency(outgoing_edges, u, v, weight)
    /\ last' = Call("add_edge", NoneVal, NoneVal, "ok")
    /\ UNCHANGED frame

\* remove_vertex without the loop of lines 47-52.
RemoveVertexAdjacencyOutgoingOnly(oe, v) == DictDel(oe, v)

\* Line 46 and the loop of lines 47-52: v's adjacency goes, then every edge into v.
RemoveVertexAdjacency(oe, v) ==
    LET oe1 == DictDel(oe, v)
    IN  [i \in 1..Len(oe1) |-> [k |-> oe1[i].k, v |-> DictDel(oe1[i].v, v)]]

\* The number of edges into v.
InDegree(oe, v) == Cardinality({i \in 1..Len(edges(oe)) : edges(oe)[i][2] = v})

\* member: whether v was in the vertex set when the call was made; n: the number
\* of edges into v then.
remove_vertex(v) ==
    /\ Idle
    /\ IF ~DictHas(outgoing_edges, v)
       THEN \* del self.outgoing_edges[v] raises KeyError
            /\ UNCHANGED <<vertex_data, outgoing_edges>>
            /\ last' = [Call("remove_vertex", v, NoneVal, "KeyError")
                            EXCEPT !.member = v \in DOMAIN vertex_data]
       ELSE /\ outgoing_edges' = RemoveVertexAdjacency(outgoing_edges, v)
            /\ IF v \in DOMAIN vertex_data
               THEN /\ vertex_data' = MapDel(vertex_data, v)
                    /\ last' = [Call("remove_vertex", v, NoneVal, "ok")
                                    EXCEPT !.member = TRUE,
                                           !.n = InDegree(outgoing_edges, v)]
               ELSE \* del self.vertex_data[v] raises KeyError
                    /\ UNCHANGED vertex_data
                    /\ last' = Call("remove_vertex", v, NoneVal, "KeyError")
    /\ UNCHANGED frame

\* member: whether the edge u -> v was in the graph when the call was made.
remove_edge(u, v) ==
    /\ Idle
    /\ LET oe1 == Vivify(outgoing_edges, u)
       IN  IF DictHas(DictGet(oe1, u), v)
           THEN /\ outgoing_edges' = DictSet(oe1, u, DictDel(DictGet(oe1, u), v))
                /\ last' = [Call("remove_edge", NoneVal, NoneVal, "ok")
                                EXCEPT !.member = TRUE]
           ELSE /\ outgoing_edges' = oe1
                /\ last' = Call("remove_edge", NoneVal, NoneVal, "ValueError")
    /\ UNCHANGED <<vertex_data, frame>>

edge_weight(u, v) ==
    /\ Idle
    /\ LET oe1 == Vivify(outgoing_edges, u)
       IN  /\ outgoing_edges' = oe1
           /\ IF DictHas(DictGet(oe1, u), v)
              THEN last' = [Call("edge_weight", NoneVal, NoneVal, "ok")
                                EXCEPT !.member = TRUE]
              ELSE last' = Call("edge_weight", NoneVal, NoneVal, "ValueError")
    /\ UNCHANGED <<vertex_data, frame>>

-----------------------------------------------------------------------------
(* Traversal Engine.  A search reads self.outgoing_edges[node], which      *)
(* inserts an empty adjacency for a node that has none, so each search     *)
(* returns the store's adjacency (oe) along with its result.               *)

\* The elements of seq, in order, that are not in set.
NotIn(seq, set) == SelectSeq(seq, LAMBDA x : x \notin set)

SeqSet(seq) == {seq[i] : i \in 1..Len(seq)}

\* Lines 108-117: node i of current_level, then the rest, then the next level.
RECURSIVE BfsLevel(_, _, _, _, _)
BfsLevel(oe, visited, current_level, i, next_level) ==
    IF i > Len(current_level)
    THEN IF next_level = <<>>
         THEN [oe |-> oe, visited |-> visited]
         ELSE BfsLevel(oe, visited, next_level, 1, <<>>)
    ELSE LET node == current_level[i]
             visited1 == visited \cup {node}
             oe1 == Vivify(oe, node)
         IN  BfsLevel(oe1, visited1, current_level, i + 1,
                      next_level \o NotIn(KeySeq(DictGet(oe1, node)), visited1))

breadth_first_search(oe, v) == BfsLevel(oe, {}, <<v>>, 1, <<>>)

\* visited = set() in place of line 122.
BfsQueueInitEmpty(v) == {}

\* visited = set([v, ]) of line 122.
BfsQueueInit(v) == {v}

\* Lines 124-129: one node off the queue, its unvisited neighbours marked and queued.
RECURSIVE BfsQueueLoop(_, _, _)
BfsQueueLoop(oe, visited, queue) ==
    IF queue = <<>>
    THEN [oe |-> oe, visited |-> visited]
    ELSE LET node == Head(queue)
             oe1 == Vivify(oe, node)
             fresh == NotIn(KeySeq(DictGet(oe1, node)), visited)
         IN  BfsQueueLoop(oe1, visited \cup SeqSet(fresh), Tail(queue) \o fresh)

breadth_first_search_queue(oe, v) == BfsQueueLoop(oe, BfsQueueInit(v), <<v>>)

\* Lines 137-143; DfsNeighbors is the for loop from neighbour i on.
RECURSIVE depth_first_search(_, _, _), DfsNeighbors(_, _, _)
depth_first_search(oe, v, visited) ==
    LET oe1 == Vivify(oe, v)
    IN  DfsNeighbors([oe |-> oe1, visited |-> visited \cup {v}],
                     KeySeq(DictGet(oe1, v)), 1)

DfsNeighbors(st, neighbors, i) ==
    IF i > Len(neighbors) THEN st
    ELSE IF neighbors[i] \notin st.visited
         THEN DfsNeighbors(depth_first_search(st.oe, neighbors[i], st.visited),
                           neighbors, i + 1)
         ELSE DfsNeighbors(st, neighbors, i + 1)

\* Lines 148-153: the node on top of the stack, its unvisited neighbours pushed.
RECURSIVE DfsStackLoop(_, _, _)
DfsStackLoop(oe, visited, stack) ==
    IF stack = <<>>
    THEN [oe |-> oe, visited |-> visited]
    ELSE LET node == stack[Len(stack)]
             visited1 == visited \cup {node}
             oe1 == Vivify(oe, node)
         IN  DfsStackLoop(oe1, visited1,
                          SubSeq(stack, 1, Len(stack) - 1)
                              \o NotIn(KeySeq(DictGet(oe1, node)), visited1))

depth_first_search_iterate(oe, v) == DfsStackLoop(oe, {}, <<v>>)

Traversed(op, v, res) ==
    /\ outgoing_edges' = res.oe
    /\ last' = [Call(op, v, NoneVal, "ok") EXCEPT !.visited = res.visited]
    /\ UNCHANGED <<vertex_data, frame>>

BreadthFirstSearch(v) ==
    Idle /\ Traversed("breadth_first_search", v,
                      breadth_first_search(outgoing_edges, v))

BreadthFirstSearchQueue(v) ==
    Idle /\ Traversed("breadth_first_search_queue", v,
                      breadth_first_search_queue(outgoing_edges, v))

DepthFirstSearch(v) ==
    Idle /\ Traversed("depth_first_search", v,
                      depth_first_search(outgoing_edges, v, {}))

DepthFirstSearchIterate(v) ==
    Idle /\ Traversed("depth_first_search_iterate", v,
                      depth_first_search_iterate(outgoing_edges, v))

TraversalOps ==
    {"breadth_first_search", "breadth_first_search_queue",
     "depth_first_search", "depth_first_search_iterate"}

-----------------------------------------------------------------------------
(* Path Reconstructor.  out is "ok", or "NoPath" (the ValueError of line   *)
(* 165), or "KeyError" (line 162 on a step that is no key), or "NoReturn"  *)
(* (the while loop of lines 160-162 never ends: the steps repeat).         *)

Reverse(seq) == [i \in 1..Len(seq) |-> seq[Len(seq) + 1 - i]]

\* backtracks.get(end)
MapGet(m, key) == IF key \in DOMAIN m THEN m[key] ELSE NoneVal

\* while last_step: of line 160.
LoopTest(last_step) == Truthy(last_step)

RECURSIVE BacktrackLoop(_, _, _)
BacktrackLoop(backtracks, backtrack_path, last_step) ==
    IF ~LoopTest(last_step)
    THEN [out |-> "ok", path |-> backtrack_path]
    ELSE IF last_step \in SeqSet(backtrack_path)
         THEN [out |-> "NoReturn", path |-> <<>>]
         ELSE IF last_step \notin DOMAIN backtracks
              THEN [out |-> "KeyError", path |-> <<>>]
              ELSE BacktrackLoop(backtracks, Append(backtrack_path, last_step),
                                 backtracks[last_step])

construct_path(backtracks, start, end) ==
    LET r == BacktrackLoop(backtracks, <<end>>, MapGet(backtracks, end))
    IN  IF r.out # "ok" THEN r
        ELSE IF r.path[Len(r.path)] # start
             THEN [out |-> "NoPath", path |-> <<>>]
             ELSE [out |-> "ok", path |-> Reverse(r.path)]

-----------------------------------------------------------------------------
(* find_shortest_path_bfs *)

\* Lines 180-186 from neighbour i of v on; found is the NestedBreak.
RECURSIVE PathBfsNeighbors(_, _, _, _, _)
PathBfsNeighbors(st, v, neighbors, i, end) ==
    IF i > Len(neighbors) THEN st
    ELSE LET neighbor == neighbors[i]
         IN  IF neighbor \in st.visited
             THEN PathBfsNeighbors(st, v, neighbors, i + 1, end)
             ELSE LET st1 == [st EXCEPT
                                 !.visited = @ \cup {neighbor},
                                 !.queue = Append(@, neighbor),
                                 !.backtracks = MapSet(@, neighbor, v)]
                  IN  IF neighbor = end
                      THEN [st1 EXCEPT !.found = TRUE]
                      ELSE PathBfsNeighbors(st1, v, neighbors, i + 1, end)

RECURSIVE PathBfsLoop(_, _)
PathBfsLoop(st, end) ==
    IF st.found \/ st.queue = <<>> THEN st
    ELSE LET v == Head(st.queue)
             oe1 == Vivify(st.oe, v)
         IN  PathBfsLoop(
                 PathBfsNeighbors([st EXCEPT !.oe = oe1, !.queue = Tail(@)],
                                  v, KeySeq(DictGet(oe1, v)), 1, end),
                 end)

find_shortest_path_bfs(vd, oe, start, end) ==
    LET st == PathBfsLoop([oe |-> oe,
                           backtracks |-> [x \in DOMAIN vd |-> NoneVal],
                           visited |-> {start},
                           queue |-> <<start>>,
                           found |-> FALSE], end)
        r == construct_path(st.backtracks, start, end)
    IN  [oe |-> st.oe, out |-> r.out, path |-> r.path]

-----------------------------------------------------------------------------
(* find_shortest_path_dijkstra.  min_heap holds the pushed and not yet      *)
(* popped (distance, vertex) pairs; heappop takes the least of them.  The  *)
(* weights are numbers: the callers of the shortest-path searches pass no  *)
(* None weight (src_distance + None is a TypeError).                       *)

\* x + weight of floats: inf + weight is inf.
Plus(x, weight) == IF x = Inf THEN Inf ELSE x + weight

\* The order of the tuples (distance, vertex).
TupleLess(a, b) == a[1] < b[1] \/ (a[1] = b[1] /\ a[2] < b[2])

HeapMinIdx(h) ==
    CHOOSE i \in 1..Len(h) :
        /\ \A j \in 1..Len(h) : ~TupleLess(h[j], h[i])
        /\ \A j \in 1..(i - 1) : h[j] # h[i]

HeapTop(h) == h[HeapMinIdx(h)]

HeapRest(h) ==
    LET i == HeapMinIdx(h) IN SubSeq(h, 1, i - 1) \o SubSeq(h, i + 1, Len(h))

\* Lines 202-209.
DijkstraInit(vd, start) ==
    [distances |-> MapSet([x \in DOMAIN vd |-> Inf], start, 0),
     backtracks |-> [x \in DOMAIN vd |-> NoneVal],
     visited |-> {},
     min_heap |-> << <<0, start>> >>]

\* <= in place of < in line 219.
DijkstraShorterOrEqual(distance_to_des, distance) == distance_to_des <= distance

\* if distance_to_des < distances[des]: of line 219.
DijkstraShorter(distance_to_des, distance) == distance_to_des < distance

\* Lines 215-224 from item i of src's adjacency on.
RECURSIVE DijkstraRelax(_, _, _, _, _)
DijkstraRelax(st, src, src_distance, items, i) ==
    IF i > Len(items) THEN st
    ELSE LET des == items[i].k
             distance_to_des == Plus(src_distance, items[i].v)
         IN  IF des \notin st.visited
                /\ DijkstraShorter(distance_to_des, st.distances[des])
             THEN DijkstraRelax(
                      [st EXCEPT !.distances = MapSet(@, des, distance_to_des),
                                 !.backtracks = MapSet(@, des, src),
                                 !.min_heap = Append(@, <<distance_to_des, des>>)],
                      src, src_distance, items, i + 1)
             ELSE DijkstraRelax(st, src, src_distance, items, i + 1)

\* Lines 211-224: one turn of the while loop.
DijkstraIter(oe, st) ==
    LET top == HeapTop(st.min_heap)
        src == top[2]
        oe1 == Vivify(oe, src)
    IN  [oe |-> oe1,
         st |-> DijkstraRelax([st EXCEPT !.min_heap = HeapRest(@),
                                         !.visited = @ \cup {src}],
                              src, top[1], DictGet(oe1, src), 1)]

RECURSIVE DijkstraLoop(_, _)
DijkstraLoop(oe, st) ==
    IF st.min_heap = <<>> THEN [oe |-> oe, st |-> st]
    ELSE LET r == DijkstraIter(oe, st) IN DijkstraLoop(r.oe, r.st)

find_shortest_path_dijkstra(vd, oe, start, end) ==
    LET d == DijkstraLoop(oe, DijkstraInit(vd, start))
        r == construct_path(d.st.backtracks, start, end)
    IN  [oe |-> d.oe, out |-> r.out, path |-> r.path]

-----------------------------------------------------------------------------
(* find_shortest_path_bellman_ford.  out "NegativeCycle" is the ValueError *)
(* of line 252.                                                            *)

\* range(vertex_count - 1) in place of line 246.
BellmanFordPassesOneLess(count) == count - 1

\* range(vertex_count) of line 246.
BellmanFordPasses(count) == count

\* Lines 247-254 from edge j on, in pass i.
RECURSIVE BellmanFordRelax(_, _, _, _)
BellmanFordRelax(st, es, j, final) ==
    IF st.raised \/ j > Len(es) THEN st
    ELSE LET src == es[j][1]
             des == es[j][2]
             distance_to_des == Plus(st.distances[src], es[j][3])
         IN  IF distance_to_des < st.distances[des]
             THEN IF final
                  THEN [st EXCEPT !.raised = TRUE]
                  ELSE BellmanFordRelax(
                           [st EXCEPT !.distances = MapSet(@, des, distance_to_des),
                                      !.backtracks = MapSet(@, des, src)],
                           es, j + 1, final)
             ELSE BellmanFordRelax(st, es, j + 1, final)

RECURSIVE BellmanFordLoop(_, _, _, _)
BellmanFordLoop(st, es, i, count) ==
    IF st.raised \/ i >= BellmanFordPasses(count) THEN st
    ELSE BellmanFordLoop(BellmanFordRelax(st, es, 1, i = count - 1),
                         es, i + 1, count)

find_shortest_path_bellman_ford(vd, oe, start, end) ==
    LET st == BellmanFordLoop(
                  [distances |-> MapSet([x \in DOMAIN vd |-> Inf], start, 0),
                   backtracks |-> [x \in DOMAIN vd |-> NoneVal],
                   raised |-> FALSE],
                  edges(oe), 0, vertex_count(vd))
        r == construct_path(st.backtracks, start, end)
    IN  IF st.raised
        THEN [oe |-> oe, out |-> "NegativeCycle", path |-> <<>>]
        ELSE [oe |-> oe, out |-> r.out, path |-> r.path]

Searched(op, start, end, res) ==
    /\ outgoing_edges' = res.oe
    /\ last' = [Call(op, start, end, res.out) EXCEPT !.path = res.path]
    /\ UNCHANGED <<vertex_data, frame>>

FindShortestPathBfs(start, end) ==
    Idle /\ Searched("find_shortest_path_bfs", start, end,
                     find_shortest_path_bfs(vertex_data, outgoing_edges, start, end))

FindShortestPathDijkstra(start, end) ==
    Idle /\ Searched("find_shortest_path_dijkstra", start, end,
                     find_shortest_path_dijkstra(vertex_data, outgoing_edges,
                                                 start, end))

FindShortestPathBellmanFord(start, end) ==
    Idle /\ Searched("find_shortest_path_bellman_ford", start, end,
                     find_shortest_path_bellman_ford(vertex_data, outgoing_edges,
                                                     start, end))

\* find_shortest_path_dijkstra one turn of its while loop at a time: frame
\* holds the call's arguments and local variables; stale says whether the
\* vertex popped last was already in visited, and live whether it then had an
\* edge to a vertex not yet in visited.
DijkstraCall(start, end) ==
    /\ Idle
    /\ frame' = [pc |-> "dijkstra", start |-> start, end |-> end,
                 st |-> DijkstraInit(vertex_data, start),
                 stale |-> FALSE, live |-> FALSE]
    /\ UNCHANGED <<vertex_data, outgoing_edges, last>>

DijkstraStep ==
    /\ frame.pc = "dijkstra"
    /\ frame.st.min_heap # <<>>
    /\ LET r == DijkstraIter(outgoing_edges, frame.st)
           src == HeapTop(frame.st.min_heap)[2]
           stale == src \in frame.st.visited
       IN  /\ outgoing_edges' = r.oe
           /\ frame' = [frame EXCEPT
                           !.st = r.st,
                           !.stale = stale,
                           !.live = stale /\ \E des \in DictKeys(DictGet(r.oe, src)) :
                                                 des \notin frame.st.visited]
    /\ UNCHANGED <<vertex_data, last>>

DijkstraReturn ==
    /\ frame.pc = "dijkstra"
    /\ frame.st.min_heap = <<>>
    /\ LET r == construct_path(frame.st.backtracks, frame.start, frame.end)
       IN  last' = [Call("find_shortest_path_dijkstra", frame.start, frame.end, r.out)
                        EXCEPT !.path = r.path]
    /\ frame' = [pc |-> "idle"]
    /\ UNCHANGED <<vertex_data, outgoing_edges>>

\* construct_path called on a backtrack map of the caller's.
ConstructPath(backtracks, start, end) ==
    /\ Idle
    /\ LET r == construct_path(backtracks, start, end)
       IN  last' = [Call("construct_path", start, end, r.out)
                        EXCEPT !.path = r.path, !.backtracks = backtracks]
    /\ UNCHANGED <<vertex_data, outgoing_edges, frame>>

PathOps ==
    {"find_shortest_path_bfs", "find_shortest_path_dijkstra",
     "find_shortest_path_bellman_ford"}

-----------------------------------------------------------------------------

\* add_edge(u, v): the default weight.
StoreWeights == {NoneVal}

\* The caller adds a new edge only to a graph of fewer than max edges.
Room(u, v, max) ==
    HasEdge(outgoing_edges, u, v) \/ edge_count(outgoing_edges) < max

Next ==
    \/ \E v \in Vertices, value \in Payloads : add_vertex(v, value)
    \/ \E u \in Vertices, v \in Vertices, w \in StoreWeights :
           Room(u, v, MaxEdges) /\ add_edge(u, v, w)
    \/ \E v \in Vertices : remove_vertex(v)
    \/ \E u \in Vertices, v \in Vertices : remove_edge(u, v)
    \/ \E u \in Vertices, v \in Vertices : edge_weight(u, v)

Spec == Init /\ [][Next]_vars

\* A caller that builds a graph and traverses it.
NextTraverse ==
    \/ \E v \in Vertices : add_vertex(v, NoneVal)
    \/ \E u \in Vertices, v \in Vertices, w \in StoreWeights :
           Room(u, v, MaxEdges) /\ add_edge(u, v, w)
    \/ \E v \in Vertices : remove_vertex(v)
    \/ \E v \in Vertices : BreadthFirstSearch(v)
    \/ \E v \in Vertices : BreadthFirstSearchQueue(v)
    \/ \E v \in Vertices : DepthFirstSearch(v)
    \/ \E v \in Vertices : DepthFirstSearchIterate(v)

SpecTraverse == Init /\ [][NextTraverse]_vars

\* A caller that builds a weighted graph and then asks for shortest paths.
Building == last.op \in {"none", "add_edge"}

NextPath ==
    \/ \E u \in Vertices, v \in Vertices, w \in Weights :
           Building /\ Room(u, v, MaxEdges) /\ add_edge(u, v, w)
    \/ \E start \in Vertices, end \in Vertices :
           Building /\ FindShortestPathBfs(start, end)
    \/ \E start \in Vertices, end \in Vertices :
           Building /\ FindShortestPathDijkstra(start, end)
    \/ \E start \in Vertices, end \in Vertices :
           Building /\ FindShortestPathBellmanFord(start, end)

SpecPath == Init /\ [][NextPath]_vars

\* A caller that builds a graph of non-negative weights without self-loops,
\* source by source in the order of the identifiers (Dijkstra's search looks
\* adjacencies up by source and never iterates outgoing_edges itself), and then
\* runs Dijkstra's search on it, from any vertex to the last one (the loop
\* never reads end).
SourcesInOrder(u) == \A i \in 1..Len(outgoing_edges) : outgoing_edges[i].k <= u

DijkstraTargets == {3}

NextDijkstra ==
    \/ \E u \in DijkstraVertices, v \in DijkstraVertices, w \in NonNegativeWeights :
           /\ Building /\ u # v /\ SourcesInOrder(u)
           /\ Room(u, v, MaxDijkstraEdges)
           /\ add_edge(u, v, w)
    \/ \E start \in DijkstraVertices, end \in DijkstraTargets :
           Building /\ DijkstraCall(start, end)
    \/ DijkstraStep
    \/ DijkstraReturn

SpecDijkstra == Init /\ [][NextDijkstra]_vars

\* A caller of construct_path alone, on every backtrack map over the identifiers.
NextConstruct ==
    \E backtracks \in [Vertices -> Vertices \cup {NoneVal}],
       start \in Vertices, end \in Vertices :
        ConstructPath(backtracks, start, end)

SpecConstruct == Init /\ [][NextConstruct]_vars

-----------------------------------------------------------------------------
(* What the searches are compared with: the graph's edges as a set, the    *)
(* vertices a directed path reaches, and the least weight of a walk.       *)

EdgeSet(oe) == SeqSet(edges(oe))

RECURSIVE Closure(_, _)
Closure(oe, set) ==
    LET next == set \cup {e[2] : e \in {x \in EdgeSet(oe) : x[1] \in set}}
    IN  IF next = set THEN set ELSE Closure(oe, next)

\* The vertices a directed path from v reaches, v included.
ReachableSet(oe, v) == Closure(oe, {v})

Least(set) == CHOOSE x \in set : \A y \in set : x <= y

\* The least weight of a walk from s to t of at most k edges; Inf when there is none.
RECURSIVE WalkWeight(_, _, _, _)
WalkWeight(oe, s, t, k) ==
    IF k = 0 THEN (IF s = t THEN 0 ELSE Inf)
    ELSE Least({WalkWeight(oe, s, t, k - 1)}
               \cup {Plus(WalkWeight(oe, s, e[1], k - 1), e[3]) :
                        e \in {x \in EdgeSet(oe) : x[2] = t}})

\* The least number of edges of a walk from s to t of at most k edges.
RECURSIVE WalkEdges(_, _, _, _)
WalkEdges(oe, s, t, k) ==
    IF k = 0 THEN (IF s = t THEN 0 ELSE Inf)
    ELSE Least({WalkEdges(oe, s, t, k - 1)}
               \cup {Plus(WalkEdges(oe, s, e[1], k - 1), 1) :
                        e \in {x \in EdgeSet(oe) : x[2] = t}})

\* The least weight of a closed walk through c of 1 to k edges.
CycleWeight(oe, c, k) ==
    Least({Inf} \cup {Plus(WalkWeight(oe, c, e[1], k - 1), e[3]) :
                         e \in {x \in EdgeSet(oe) : x[2] = c}})

Order == Cardinality(DOMAIN vertex_data)

NegativeCycleReachable(oe, start) ==
    \E c \in ReachableSet(oe, start) : CycleWeight(oe, c, Order) < 0

\* path leads from start to end along edges of the graph.
IsPath(oe, path, start, end) ==
    /\ Len(path) >= 1
    /\ path[1] = start
    /\ path[Len(path)] = end
    /\ \A i \in 1..(Len(path) - 1) : HasEdge(oe, path[i], path[i + 1])

RECURSIVE PathWeight(_, _)
PathWeight(oe, path) ==
    IF Len(path) <= 1 THEN 0
    ELSE DictGet(DictGet(oe, path[1]), path[2]) + PathWeight(oe, Tail(path))

Connected(start, end) ==
    /\ start \in DOMAIN vertex_data
    /\ end \in DOMAIN vertex_data
    /\ end \in ReachableSet(outgoing_edges, start)

SearchOps == TraversalOps \cup PathOps

-----------------------------------------------------------------------------
(* The claims *)

\* C1: remove_vertex(v) of a vertex v of the vertex set, with or without
\* outgoing edges, ends without an error, and afterwards v is not a vertex
\* and no edge has v as its source or destination.
C1_RemoveVertexOfMemberSucceeds ==
    (last.op = "remove_vertex" /\ last.member) =>
        /\ last.out = "ok"
        /\ last.v \notin DOMAIN vertex_data
        /\ \A e \in EdgeSet(outgoing_edges) : e[1] # last.v /\ e[2] # last.v

\* C2: a traversal or shortest-path search leaves the vertex payload map and
\* the adjacency mapping, its set of keys included, as they were.
C2_SearchLeavesStoreUnchanged ==
    [][last'.op \in SearchOps =>
          vertex_data' = vertex_data /\ outgoing_edges' = outgoing_edges]_vars

\* C3: on a graph of non-negative weights, for vertices start and end with a
\* directed path from start to end, Dijkstra's and the Bellman-Ford search
\* each return a path from start to end along edges of the graph whose total
\* weight is the least of any path from start to end.
C3_DijkstraAndBellmanFordShortest ==
    ( /\ last.op \in {"find_shortest_path_dijkstra", "find_shortest_path_bellman_ford"}
      /\ \A e \in EdgeSet(outgoing_edges) : e[3] >= 0
      /\ Connected(last.v, last.w) ) =>
        /\ last.out = "ok"
        /\ IsPath(outgoing_edges, last.path, last.v, last.w)
        /\ PathWeight(outgoing_edges, last.path)
               = WalkWeight(outgoing_edges, last.v, last.w, Order)

\* C4: the Bellman-Ford search raises the negative-weight-cycle error exactly
\* when a cycle of negative total weight is reachable from start, whatever
\* end is.
C4_BellmanFordRaisesIffNegativeCycle ==
    last.op = "find_shortest_path_bellman_ford" =>
        ((last.out = "NegativeCycle")
             <=> NegativeCycleReachable(outgoing_edges, last.v))

\* C4's case: the error is raised for a negative cycle that start reaches and
\* is not on.
C4_Witness ==
    /\ last.op = "find_shortest_path_bellman_ford"
    /\ last.out = "NegativeCycle"
    /\ CycleWeight(outgoing_edges, last.v, Order) >= 0

\* C5: for vertices start and end with a directed path from start to end,
\* find_shortest_path_bfs returns a path from start to end along edges of the
\* graph with the least possible number of edges, and when every weight is 1
\* Dijkstra's search returns a path of the same length.
C5_BfsFewestEdges ==
    /\ (last.op = "find_shortest_path_bfs" /\ Connected(last.v, last.w)) =>
          /\ last.out = "ok"
          /\ IsPath(outgoing_edges, last.path, last.v, last.w)
          /\ Len(last.path) - 1 = WalkEdges(outgoing_edges, last.v, last.w, Order)
    /\ ( /\ last.op = "find_shortest_path_dijkstra"
         /\ \A e \in EdgeSet(outgoing_edges) : e[3] = 1
         /\ Connected(last.v, last.w) ) =>
          /\ last.out = "ok"
          /\ Len(last.path) - 1 = WalkEdges(outgoing_edges, last.v, last.w, Order)

\* The predecessors from the last element of chain on, up to the first None;
\* <<>> when they repeat and never reach None.
RECURSIVE Chain(_, _, _)
Chain(backtracks, chain, next) ==
    IF next = NoneVal THEN chain
    ELSE IF next \in SeqSet(chain) THEN <<>>
         ELSE Chain(backtracks, Append(chain, next), backtracks[next])

\* C6: construct_path follows the predecessors from end up to the first None
\* predecessor, whatever the identifiers are: if that chain leads to start it
\* returns the chain in start-to-end order, and it fails with the
\* path-not-found error exactly when the chain does not lead to start.
C6_ConstructPathFollowsChainToNone ==
    last.op = "construct_path" =>
        LET chain == Chain(last.backtracks, <<last.w>>, last.backtracks[last.w])
        IN  chain # <<>> =>
                /\ chain[Len(chain)] = last.v =>
                       last.out = "ok" /\ last.path = Reverse(chain)
                /\ (last.out = "NoPath") <=> (chain[Len(chain)] # last.v)

\* C7: on every graph, cycles and self-loops included, the four traversals
\* from v end and return the same set: the vertices a directed path from v
\* reaches, v included.
C7_TraversalsReturnReachableSet ==
    /\ last.op \in TraversalOps =>
           last.visited = ReachableSet(outgoing_edges, last.v)
    /\ \A v \in Vertices :
           LET reached == ReachableSet(outgoing_edges, v)
           IN  /\ breadth_first_search(outgoing_edges, v).visited = reached
               /\ breadth_first_search_queue(outgoing_edges, v).visited = reached
               /\ depth_first_search(outgoing_edges, v, {}).visited = reached
               /\ depth_first_search_iterate(outgoing_edges, v).visited = reached

\* C7's case: the level-batched search from a vertex with a self-loop has
\* returned every vertex.
C7_Witness ==
    /\ last.op = "breadth_first_search"
    /\ HasEdge(outgoing_edges, last.v, last.v)
    /\ last.visited = Vertices

\* C8: after any calls of the store, failed ones included, no edge has a
\* source or a destination that is not in the vertex set.
C8_EdgeEndpointsAreVertices ==
    \A e \in EdgeSet(outgoing_edges) :
        e[1] \in DOMAIN vertex_data /\ e[2] \in DOMAIN vertex_data

\* C8's case: a vertex with an edge into it has been removed, and edges remain.
C8_Witness ==
    /\ last.op = "remove_vertex"
    /\ last.out = "ok"
    /\ last.n >= 1
    /\ edge_count(outgoing_edges) >= 1

\* C9: in Dijkstra's search on non-negative weights, a pop of a vertex that
\* is already in visited changes no distance and no predecessor and pushes
\* nothing.
C9_StalePopIsNoOp ==
    [][( /\ frame.pc = "dijkstra"
         /\ frame.st.min_heap # <<>>
         /\ HeapTop(frame.st.min_heap)[2] \in frame.st.visited
         /\ \A e \in EdgeSet(outgoing_edges) : e[3] >= 0 ) =>
            /\ frame'.st.distances = frame.st.distances
            /\ frame'.st.backtracks = frame.st.backtracks
            /\ Len(frame'.st.min_heap) = Len(frame.st.min_heap) - 1]_vars

\* C9's case: a vertex already in visited has been popped while it had an
\* edge to a vertex not yet in visited.
C9_Witness == frame.pc = "dijkstra" /\ frame.live

\* C10: remove_edge, edge_weight and remove_vertex, when they end in an
\* error, leave the vertex payload map and the adjacency mapping, its set of
\* keys included, as they were.
C10_FailedCallLeavesStoreUnchanged ==
    [][(last'.op \in {"remove_edge", "edge_weight", "remove_vertex"}
            /\ last'.out # "ok") =>
          vertex_data' = vertex_data /\ outgoing_edges' = outgoing_edges]_vars

====
